---------------------------- MODULE Spec2Model ----------------------------
(***************************************************************************)
(* The compiler driver of Backend/compiler.py: compile_code(args), the     *)
(* Flask handler api_compile() and the command-line entry point.           *)
(*                                                                         *)
(* The pipeline stages (Parser, Scanner, SemanticAnalyser, CodeGen,        *)
(* SymbolTableManager, MemoryManager, genARM) live in Backend/modules and  *)
(* are modelled only at the interface the driver uses: the two managers    *)
(* are process-wide and reset by init(); parse() yields three error texts  *)
(* or aborts on a structural failure; save_output() writes the IR file;    *)
(* genARM() lowers the IR file to armv8_output.s.                          *)
(*                                                                         *)
(* Two specifications share the actions:                                   *)
(*   Spec     the Flask server of app.run(): requests are handled          *)
(*            concurrently, each on its own thread of one process;         *)
(*   SeqSpec  compilations one after the other, from the command line or   *)
(*            through the handler.                                         *)
(***************************************************************************)
EXTENDS Integers, Sequences, FiniteSets, TLC

\* Number of compilations (requests or command-line runs) of a behaviour.
NReq == 2

\* timeout=10 of sp.check_output
TesterTimeout == 10

Req == 1 .. NReq

None == "none"

\* 0 stands for the console (the sys.stdout the process started with),
\* r \in Req for the io.StringIO of request r.
Console == 0

LexSentinel == "There is no lexical errors."
SynSentinel == "There is no syntax error."
SemSentinel == "The input program is semantically correct."

Newline == "\n"
Whitespace == {" ", Newline}

\* The source texts submitted: a correct program, programs with errors
\* of one or two categories, and a program whose declarations exhaust the
\* address space (a structural failure, fatal for the run).
Sources == {"ok", "lex", "syn", "sem", "lexsyn", "fatal"}

\* The payloads of a request: a JSON object carrying a source text, a body
\* that is not JSON, and a JSON object whose "code" is not a string.
BadJson == "not json"
BadCode == "code is not a string"
Payloads == Sources \cup {BadJson, BadCode}

\* What platform.system() may answer.
Supported == {"Windows", "Linux", "Darwin"}
Platforms == Supported \cup {"Java"}

\* How long the interpreter runs, and how it ends when it ends in time.
Durations == {1, TesterTimeout + 1}
TesterEnds == {"exit 0", "exit 1", "cannot start"}

\* The layout of the error texts the modules expose: bare, or ending
\* with a newline.  Unknown here, and fixed for a behaviour.
Layouts == {"bare", "trailing"}

UnsupportedOS == "Unsupported operating system!"

VARIABLES
    pc,           \* pc[r]: where run r is
    entry,        \* entry[r]: "cli", "api" or None
    src,          \* src[r]: the source text of run r (args.source_file)
    runFlag,      \* runFlag[r]: args.run
    parser,       \* parser[r]: the error texts of r's Parser, or None
    calls,        \* calls[r]: the calls run r has made, in order
    printed,      \* printed[r]: what run r has printed, in order
    stream,       \* stream[r]: the content of request r's io.StringIO
    stdoutTarget, \* sys.stdout of the process
    oldTarget,    \* oldTarget[r]: redirect_stdout's saved target
    stm,          \* SymbolTableManager: "loaded" (the module was imported),
                  \* "fresh" (init() has run) or "dirty" (a parse has used it)
    mm,           \* MemoryManager: likewise
    irFile,       \* output/output.txt
    asmFile,      \* armv8_output.s
    tmpFiles,     \* the requests whose temporary source file exists
    response,     \* response[r]: the HTTP response, or None
    nResponses,   \* nResponses[r]: how many responses were returned
    err,          \* err[r]: the exception run r raised, or None
    exec,         \* exec[r]: the platform and the tester's end, or None
    outcome,      \* outcome[r]: what compile_code left behind, or None
    started,      \* how many runs have begun
    layout        \* the layout of the error texts

vars == <<pc, entry, src, runFlag, parser, calls, printed, stream,
          stdoutTarget, oldTarget, stm, mm, irFile, asmFile, tmpFiles,
          response, nResponses, err, exec, outcome, started, layout>>


-----------------------------------------------------------------------------
(* Values *)

Msg(text) == [text |-> text, body |-> <<>>]

\* An IR: the source it was generated from, and whether the managers were
\* freshly initialised when it was generated.
NoIR == <<None, FALSE>>

NoParser == [lex |-> <<>>, syn |-> <<>>, sem |-> <<>>, ir |-> NoIR]

NoFile == [kind |-> None, sections |-> <<>>, ir |-> NoIR]

NoResponse == [status |-> 0, success |-> FALSE, output |-> <<>>, error |-> None]

NoExec == [plat |-> None, dur |-> 0, end |-> None]

NoOutcome == [branch |-> None, texts |-> NoParser, asm |-> NoFile]

-----------------------------------------------------------------------------
(* str.strip(): the text without its leading and trailing whitespace *)

RECURSIVE LStrip(_)
LStrip(t) ==
    IF t = <<>> THEN <<>>
    ELSE IF Head(t) \in Whitespace THEN LStrip(Tail(t)) ELSE t

RECURSIVE RStrip(_)
RStrip(t) ==
    IF t = <<>> THEN <<>>
    ELSE IF t[Len(t)] \in Whitespace THEN RStrip(SubSeq(t, 1, Len(t) - 1)) ELSE t

Strip(t) == RStrip(LStrip(t))

-----------------------------------------------------------------------------
(* The stages, at the interface the driver uses *)

RECURSIVE Lines(_)
Lines(recs) ==
    IF Len(recs) <= 1 THEN recs
    ELSE <<Head(recs), Newline>> \o Lines(Tail(recs))

\* The text a category exposes: its records, or its sentinel.
CategoryText(sentinel, recs, lay) ==
    LET text == IF recs = <<>> THEN <<sentinel>> ELSE Lines(recs)
    IN  IF lay = "trailing" THEN text \o <<Newline>> ELSE text

LexRecords(s) ==
    IF s \in {"lex", "lexsyn"} THEN <<"#1 : Lexical Error! invalid input">> ELSE <<>>

SynRecords(s) ==
    IF s \in {"syn", "lexsyn"} THEN <<"#1 : Syntax Error! missing ;">> ELSE <<>>

\* A symbol table or an address counter left over from another
\* compilation makes the declarations of this one redeclarations.
SemRecords(s, clean) ==
    (IF s = "sem" THEN <<"#1 : Semantic Error! 'foo' is not defined">> ELSE <<>>)
    \o (IF clean THEN <<>> ELSE <<"#1 : Semantic Error! redeclaration">>)

\* The managers hold nothing of another compilation.
Clean(s, m) == s # "dirty" /\ m # "dirty"

\* parse() aborts on a structural failure.
Fatal(s) == s = "fatal"

ParseResult(s, clean, lay) ==
    [lex |-> CategoryText(LexSentinel, LexRecords(s), lay),
     syn |-> CategoryText(SynSentinel, SynRecords(s), lay),
     sem |-> CategoryText(SemSentinel, SemRecords(s, clean), lay),
     ir  |-> <<s, clean>>]

\* genARM() lowers the IR file to assembly.
Assembly(ir) == [kind |-> "asm", sections |-> <<>>, ir |-> ir]

-----------------------------------------------------------------------------
(* compile_code: the error gate and the error report *)

\* Variant: the gate forgets flag_syn.
HasErrorsNoSyntax(p) ==
    \/ Strip(p.lex) # <<LexSentinel>>
    \/ Strip(p.sem) # <<SemSentinel>>

HasErrors(p) ==
    LET lexical_errors == Strip(p.lex)
        syntax_errors == Strip(p.syn)
        semantic_errors == Strip(p.sem)
        flag_lex == lexical_errors # <<LexSentinel>>
        flag_syn == syntax_errors # <<SynSentinel>>
        flag_sem == semantic_errors # <<SemSentinel>>
    IN  flag_lex \/ flag_sem \/ flag_syn

\* One section of the report: left out when the stripped text is empty.
Section(title, text, ending) ==
    IF Strip(text) # <<>>
    THEN <<[text |-> title, body |-> Strip(text) \o ending]>>
    ELSE <<>>

PrintedSections(p) ==
    Section("Lexical Errors:", p.lex, <<>>)
    \o Section("Syntax Errors:", p.syn, <<>>)
    \o Section("Semantic Errors:", p.sem, <<>>)

\* Variant: the syntax section is written before the lexical one.
WrittenSectionsSwapped(p) ==
    Section("Syntax Errors:", p.syn, <<Newline, Newline>>)
    \o Section("Lexical Errors:", p.lex, <<Newline, Newline>>)
    \o Section("Semantic Errors:", p.sem, <<Newline>>)

WrittenSections(p) ==
    Section("Lexical Errors:", p.lex, <<Newline, Newline>>)
    \o Section("Syntax Errors:", p.syn, <<Newline, Newline>>)
    \o Section("Semantic Errors:", p.sem, <<Newline>>)

ErrorFile(p) == [kind |-> "errors", sections |-> WrittenSections(p), ir |-> NoIR]

\* Variant: the chain has no Darwin branch.
TesterFileNoDarwin(plat) ==
    IF plat = "Windows" THEN "tester_Windows.exe"
    ELSE IF plat = "Linux" THEN "tester_Linux.out"
    ELSE None

\* The if/elif chain over platform.system(): the tester, or None.
TesterFile(plat) ==
    IF plat = "Windows" THEN "tester_Windows.exe"
    ELSE IF plat = "Linux" THEN "tester_Linux.out"
    ELSE IF plat = "Darwin" THEN "tester_Mac.out"
    ELSE None


-----------------------------------------------------------------------------
(* The state after start-up: nothing compiled yet *)

Init ==
    /\ pc = [r \in Req |-> "idle"]
    /\ entry = [r \in Req |-> None]
    /\ src = [r \in Req |-> None]
    /\ runFlag = [r \in Req |-> FALSE]
    /\ parser = [r \in Req |-> NoParser]
    /\ calls = [r \in Req |-> <<>>]
    /\ printed = [r \in Req |-> <<>>]
    /\ stream = [r \in Req |-> <<>>]
    /\ stdoutTarget = Console
    /\ oldTarget = [r \in Req |-> Console]
    /\ stm = "loaded"
    /\ mm = "loaded"
    /\ irFile = NoIR
    /\ asmFile = NoFile
    /\ tmpFiles = {}
    /\ response = [r \in Req |-> NoResponse]
    /\ nResponses = [r \in Req |-> 0]
    /\ err = [r \in Req |-> None]
    /\ exec = [r \in Req |-> NoExec]
    /\ outcome = [r \in Req |-> NoOutcome]
    /\ started = 0
    /\ layout \in Layouts

-----------------------------------------------------------------------------
(* Helpers of the actions *)

Tagged(r, msgs) == [i \in 1 .. Len(msgs) |-> [by |-> r, msg |-> msgs[i]]]

\* print(): to whatever sys.stdout is at the moment of the call.
Emit(r, msgs) ==
    /\ printed' = [printed EXCEPT ![r] = @ \o msgs]
    /\ stream' = IF stdoutTarget = Console
                 THEN stream
                 ELSE [stream EXCEPT ![stdoutTarget] = @ \o Tagged(r, msgs)]

\* compile_code ends: it returns, or an exception leaves it.
Leave(r, how, branch, e, asm) ==
    /\ pc' = [pc EXCEPT ![r] = how]
    /\ err' = [err EXCEPT ![r] = e]
    /\ outcome' = [outcome EXCEPT ![r] =
                      [branch |-> branch, texts |-> parser[r], asm |-> asm]]

Respond(r, resp) ==
    /\ response' = [response EXCEPT ![r] = resp]
    /\ nResponses' = [nResponses EXCEPT ![r] = @ + 1]

Ok200(output) ==
    [status |-> 200, success |-> TRUE, output |-> output, error |-> None]

Error500(e) ==
    [status |-> 500, success |-> FALSE, output |-> <<>>, error |-> e]

\* A run is over: the process of a command-line run has ended, or the
\* response of a request has been returned.
Completed(r) ==
    \/ pc[r] = "done"
    \/ entry[r] = "cli" /\ pc[r] \in {"returned", "raised"}

Quiet == \A r \in Req : pc[r] = "idle" \/ Completed(r)

-----------------------------------------------------------------------------
(* The entry points *)

\* __main__ with a .c argument: a new process compiles one file.
CliMain(r) ==
    /\ pc[r] = "idle"
    /\ r = started + 1
    /\ \E s \in Sources, f \in BOOLEAN :
          /\ src' = [src EXCEPT ![r] = s]
          /\ runFlag' = [runFlag EXCEPT ![r] = f]
    /\ entry' = [entry EXCEPT ![r] = "cli"]
    /\ started' = r
    /\ stm' = "loaded"
    /\ mm' = "loaded"
    /\ stdoutTarget' = Console
    /\ pc' = [pc EXCEPT ![r] = "begin"]
    /\ UNCHANGED <<parser, calls, printed, stream, oldTarget, irFile, asmFile,
                   tmpFiles, response, nResponses, err, exec, outcome, layout>>

\* api_compile up to the call of compile_code: the payload is read, the
\* temporary file is written, Args is built and stdout is redirected.
ApiReceive(r) ==
    /\ pc[r] = "idle"
    /\ r = started + 1
    /\ started' = r
    /\ entry' = [entry EXCEPT ![r] = "api"]
    /\ \E p \in Payloads :
          \/ /\ p = BadJson
             /\ Respond(r, Error500("bad request"))
             /\ err' = [err EXCEPT ![r] = "bad request"]
             /\ pc' = [pc EXCEPT ![r] = "done"]
             /\ UNCHANGED <<src, tmpFiles, oldTarget, stdoutTarget>>
          \/ /\ p = BadCode
             /\ tmpFiles' = tmpFiles \cup {r}
             /\ Respond(r, Error500("write() argument must be str"))
             /\ err' = [err EXCEPT ![r] = "write() argument must be str"]
             /\ pc' = [pc EXCEPT ![r] = "done"]
             /\ UNCHANGED <<src, oldTarget, stdoutTarget>>
          \/ /\ p \in Sources
             /\ tmpFiles' = tmpFiles \cup {r}
             /\ src' = [src EXCEPT ![r] = p]
             /\ oldTarget' = [oldTarget EXCEPT ![r] = stdoutTarget]
             /\ stdoutTarget' = r
             /\ pc' = [pc EXCEPT ![r] = "begin"]
             /\ UNCHANGED <<response, nResponses, err>>
    /\ UNCHANGED <<runFlag, parser, calls, printed, stream, stm, mm, irFile,
                   asmFile, exec, outcome, layout>>

-----------------------------------------------------------------------------
(* compile_code(args) *)

\* Lines 36-39: the flags are cleared and the banner is printed.
CompileBegin(r) ==
    /\ pc[r] = "begin"
    /\ Emit(r, <<Msg("Compiling")>>)
    /\ pc' = [pc EXCEPT ![r] = "stinit"]
    /\ UNCHANGED <<entry, src, runFlag, parser, calls, stdoutTarget, oldTarget,
                   stm, mm, irFile, asmFile, tmpFiles, response, nResponses,
                   err, exec, outcome, started, layout>>

\* Variant: the driver goes from SymbolTableManager.init() straight to the
\* Parser, without MemoryManager.init().
STInitSkipMM(r) ==
    /\ pc[r] = "stinit"
    /\ stm' = "fresh"
    /\ calls' = [calls EXCEPT ![r] = Append(@, "SymbolTableManager.init")]
    /\ pc' = [pc EXCEPT ![r] = "parse"]
    /\ UNCHANGED <<entry, src, runFlag, parser, printed, stream, stdoutTarget,
                   oldTarget, mm, irFile, asmFile, tmpFiles, response,
                   nResponses, err, exec, outcome, started, layout>>

\* Line 40: SymbolTableManager.init()
STInit(r) ==
    /\ pc[r] = "stinit"
    /\ stm' = "fresh"
    /\ calls' = [calls EXCEPT ![r] = Append(@, "SymbolTableManager.init")]
    /\ pc' = [pc EXCEPT ![r] = "mminit"]
    /\ UNCHANGED <<entry, src, runFlag, parser, printed, stream, stdoutTarget,
                   oldTarget, mm, irFile, asmFile, tmpFiles, response,
                   nResponses, err, exec, outcome, started, layout>>

\* Variant: line 41 calls SymbolTableManager.init() a second time instead
\* of MemoryManager.init().
MMInitCopyPaste(r) ==
    /\ pc[r] = "mminit"
    /\ stm' = "fresh"
    /\ calls' = [calls EXCEPT ![r] = Append(@, "SymbolTableManager.init")]
    /\ pc' = [pc EXCEPT ![r] = "parse"]
    /\ UNCHANGED <<entry, src, runFlag, parser, printed, stream, stdoutTarget,
                   oldTarget, mm, irFile, asmFile, tmpFiles, response,
                   nResponses, err, exec, outcome, started, layout>>

\* Line 41: MemoryManager.init()
MMInit(r) ==
    /\ pc[r] = "mminit"
    /\ mm' = "fresh"
    /\ calls' = [calls EXCEPT ![r] = Append(@, "MemoryManager.init")]
    /\ pc' = [pc EXCEPT ![r] = "parse"]
    /\ UNCHANGED <<entry, src, runFlag, parser, printed, stream, stdoutTarget,
                   oldTarget, stm, irFile, asmFile, tmpFiles, response,
                   nResponses, err, exec, outcome, started, layout>>

\* Lines 43-48: the Parser is constructed, parse() runs over the
\* process-wide managers, and the time it took is printed.  A structural
\* failure leaves compile_code with an exception.
Parse(r) ==
    /\ pc[r] = "parse"
    /\ calls' = [calls EXCEPT ![r] = @ \o <<"Parser", "parse">>]
    /\ stm' = "dirty"
    /\ mm' = "dirty"
    /\ IF Fatal(src[r])
       THEN /\ Leave(r, "raised", "aborted", "address space exhausted", asmFile)
            /\ UNCHANGED <<parser, printed, stream>>
       ELSE /\ parser' = [parser EXCEPT ![r] =
                   ParseResult(src[r], Clean(stm, mm), layout)]
            /\ Emit(r, <<Msg("Compilation took")>>)
            /\ pc' = [pc EXCEPT ![r] = "save"]
            /\ UNCHANGED <<err, outcome>>
    /\ UNCHANGED <<entry, src, runFlag, stdoutTarget, oldTarget, irFile,
                   asmFile, tmpFiles, response, nResponses, exec, started,
                   layout>>

\* Lines 51-62: the optional dumps, then code_generator.save_output()
\* writes the IR file.
SaveOutput(r) ==
    /\ pc[r] = "save"
    /\ irFile' = parser[r].ir
    /\ calls' = [calls EXCEPT ![r] = Append(@, "save_output")]
    /\ pc' = [pc EXCEPT ![r] = "gate"]
    /\ UNCHANGED <<entry, src, runFlag, parser, printed, stream, stdoutTarget,
                   oldTarget, stm, mm, asmFile, tmpFiles, response, nResponses,
                   err, exec, outcome, started, layout>>

\* Lines 65-83, has_errors: the diagnostics are printed.
ReportErrors(r) ==
    /\ pc[r] = "gate"
    /\ HasErrors(parser[r])
    /\ Emit(r, <<Msg("Compilation failed due to the following errors:")>>
               \o PrintedSections(parser[r]))
    /\ pc' = [pc EXCEPT ![r] = "writeerr"]
    /\ UNCHANGED <<entry, src, runFlag, parser, calls, stdoutTarget, oldTarget,
                   stm, mm, irFile, asmFile, tmpFiles, response, nResponses,
                   err, exec, outcome, started, layout>>

\* Lines 86-95: the report overwrites armv8_output.s; compile_code returns.
WriteErrorReport(r) ==
    /\ pc[r] = "writeerr"
    /\ asmFile' = ErrorFile(parser[r])
    /\ Leave(r, "returned", "failed", None, asmFile')
    /\ UNCHANGED <<entry, src, runFlag, parser, calls, printed, stream,
                   stdoutTarget, oldTarget, stm, mm, irFile, tmpFiles, response,
                   nResponses, exec, started, layout>>

\* Lines 65-74 and 97, not has_errors.
ReportSuccess(r) ==
    /\ pc[r] = "gate"
    /\ ~HasErrors(parser[r])
    /\ Emit(r, <<Msg("Compilation successful!")>>)
    /\ pc' = [pc EXCEPT ![r] = "genarm"]
    /\ UNCHANGED <<entry, src, runFlag, parser, calls, stdoutTarget, oldTarget,
                   stm, mm, irFile, asmFile, tmpFiles, response, nResponses,
                   err, exec, outcome, started, layout>>

\* Lines 98-101: genARM() lowers the IR file; without args.run
\* compile_code returns.
GenARM(r) ==
    /\ pc[r] = "genarm"
    /\ asmFile' = Assembly(irFile)
    /\ calls' = [calls EXCEPT ![r] = Append(@, "genARM")]
    /\ IF runFlag[r]
       THEN /\ pc' = [pc EXCEPT ![r] = "exec"]
            /\ UNCHANGED <<err, outcome>>
       ELSE Leave(r, "returned", "success", None, asmFile')
    /\ UNCHANGED <<entry, src, runFlag, parser, printed, stream, stdoutTarget,
                   oldTarget, stm, mm, irFile, tmpFiles, response, nResponses,
                   exec, started, layout>>

\* Lines 101-142, args.run: the tester of the platform runs the program.
\* Only the timeout is handled; an unsupported platform, a tester that
\* cannot be started and a non-zero exit status leave compile_code with an
\* exception.
ExecProgram(r) ==
    /\ pc[r] = "exec"
    /\ \E plat \in Platforms, dur \in Durations, end \in TesterEnds :
          LET executing == <<Msg("Executing compiled program")>>
              asm == asmFile
          IN  IF TesterFile(plat) = None
              THEN /\ exec' = [exec EXCEPT ![r] = [plat |-> plat, dur |-> 0, end |-> None]]
                   /\ Emit(r, executing)
                   /\ Leave(r, "raised", "success", UnsupportedOS, asm)
              ELSE IF irFile = NoIR
              THEN /\ exec' = [exec EXCEPT ![r] = [plat |-> plat, dur |-> 0, end |-> None]]
                   /\ Emit(r, executing)
                   /\ Leave(r, "returned", "success", None, asm)
              ELSE /\ exec' = [exec EXCEPT ![r] = [plat |-> plat, dur |-> dur, end |-> end]]
                   /\ IF end = "cannot start"
                      THEN /\ Emit(r, executing)
                           /\ Leave(r, "raised", "success", "OSError", asm)
                      ELSE IF dur > TesterTimeout
                      THEN /\ Emit(r, executing
                                   \o <<Msg("RuntimeError: Execution timed out!")>>)
                           /\ Leave(r, "returned", "success", None, asm)
                      ELSE IF end = "exit 1"
                      THEN /\ Emit(r, executing)
                           /\ Leave(r, "raised", "success", "CalledProcessError", asm)
                      ELSE /\ Emit(r, executing
                                   \o <<Msg("Execution took"), Msg("Program output:"),
                                        Msg("tester output")>>)
                           /\ Leave(r, "returned", "success", None, asm)
    /\ UNCHANGED <<entry, src, runFlag, parser, calls, stdoutTarget, oldTarget,
                   stm, mm, irFile, asmFile, tmpFiles, response, nResponses,
                   started, layout>>

-----------------------------------------------------------------------------
(* api_compile after compile_code *)

\* Lines 179-180 and 187-188: redirect_stdout restores the target it
\* saved, on a return and on an exception alike; an exception then reaches
\* the handler's except clause.
ApiExitRedirect(r) ==
    /\ entry[r] = "api"
    /\ pc[r] \in {"returned", "raised"}
    /\ stdoutTarget' = oldTarget[r]
    /\ IF pc[r] = "returned"
       THEN /\ pc' = [pc EXCEPT ![r] = "remove"]
            /\ UNCHANGED <<response, nResponses>>
       ELSE /\ Respond(r, Error500(err[r]))
            /\ pc' = [pc EXCEPT ![r] = "done"]
    /\ UNCHANGED <<entry, src, runFlag, parser, calls, printed, stream,
                   oldTarget, stm, mm, irFile, asmFile, tmpFiles, err, exec,
                   outcome, started, layout>>

\* Variant: a failing os.remove is not caught, and no response is returned.
ApiRemovePropagates(r) ==
    /\ pc[r] = "remove"
    /\ \E removed \in BOOLEAN :
          IF removed
          THEN /\ tmpFiles' = tmpFiles \ {r}
               /\ Respond(r, Ok200(stream[r]))
               /\ UNCHANGED err
          ELSE /\ err' = [err EXCEPT ![r] = "os.remove failed"]
               /\ UNCHANGED <<tmpFiles, response, nResponses>>
    /\ pc' = [pc EXCEPT ![r] = "done"]
    /\ UNCHANGED <<entry, src, runFlag, parser, calls, printed, stream,
                   stdoutTarget, oldTarget, stm, mm, irFile, asmFile, exec,
                   outcome, started, layout>>

\* Lines 181-188: the captured text is read, the temporary file is
\* removed and the response is returned; a failing os.remove reaches the
\* except clause.
ApiRemove(r) ==
    /\ pc[r] = "remove"
    /\ \E removed \in BOOLEAN :
          IF removed
          THEN /\ tmpFiles' = tmpFiles \ {r}
               /\ Respond(r, Ok200(stream[r]))
               /\ UNCHANGED err
          ELSE /\ err' = [err EXCEPT ![r] = "os.remove failed"]
               /\ Respond(r, Error500("os.remove failed"))
               /\ UNCHANGED tmpFiles
    /\ pc' = [pc EXCEPT ![r] = "done"]
    /\ UNCHANGED <<entry, src, runFlag, parser, calls, printed, stream,
                   stdoutTarget, oldTarget, stm, mm, irFile, asmFile, exec,
                   outcome, started, layout>>

-----------------------------------------------------------------------------
(* The specifications *)

\* The server: app.run() handles each request on a thread of its own.
Next ==
    \E r \in Req :
        \/ ApiReceive(r)
        \/ CompileBegin(r)
        \/ STInit(r)
        \/ MMInit(r)
        \/ Parse(r)
        \/ SaveOutput(r)
        \/ ReportErrors(r)
        \/ WriteErrorReport(r)
        \/ ReportSuccess(r)
        \/ GenARM(r)
        \/ ApiExitRedirect(r)
        \/ ApiRemove(r)

Spec == Init /\ [][Next]_vars

\* One compilation at a time, from the command line or through the handler.
SeqStartCli(r) == Quiet /\ CliMain(r)

SeqStartApi(r) == Quiet /\ ApiReceive(r)

SeqNext ==
    \E r \in Req :
        \/ SeqStartCli(r)
        \/ SeqStartApi(r)
        \/ CompileBegin(r)
        \/ STInit(r)
        \/ MMInit(r)
        \/ Parse(r)
        \/ SaveOutput(r)
        \/ ReportErrors(r)
        \/ WriteErrorReport(r)
        \/ ReportSuccess(r)
        \/ GenARM(r)
        \/ ExecProgram(r)
        \/ ApiExitRedirect(r)
        \/ ApiRemove(r)

SeqSpec == Init /\ [][SeqNext]_vars

-----------------------------------------------------------------------------
(* Vocabulary of the properties *)

Count(seq, x) == Cardinality({i \in DOMAIN seq : seq[i] = x})

\* i is the place of the first call of x in seq, 0 when there is none.
FirstCall(seq, x) ==
    IF \E i \in DOMAIN seq : seq[i] = x
    THEN CHOOSE i \in DOMAIN seq : seq[i] = x /\ \A j \in 1 .. (i - 1) : seq[j] # x
    ELSE 0

\* parse() of run r has returned.
Parsed(r) == FirstCall(calls[r], "parse") # 0 /\ parser[r] # NoParser

\* Every stripped error text equals its sentinel.
ErrorFree(p) ==
    /\ Strip(p.lex) = <<LexSentinel>>
    /\ Strip(p.syn) = <<SynSentinel>>
    /\ Strip(p.sem) = <<SemSentinel>>

HasPrinted(r, text) == \E i \in DOMAIN printed[r] : printed[r][i].text = text

\* C1: in every run the backend is invoked exactly once when, after
\* parse() has completed, the three categories are error-free, and not at
\* all when one of them is not or parse() did not complete; it is never
\* invoked before parse() and save_output() have returned.
C1_BackendGate ==
    \A r \in Req :
        LET n == Count(calls[r], "genARM")
            g == FirstCall(calls[r], "genARM")
        IN  /\ n <= 1
            /\ n = 1 =>
                  /\ Parsed(r) /\ ErrorFree(parser[r])
                  /\ 0 < FirstCall(calls[r], "parse")
                  /\ FirstCall(calls[r], "parse") < FirstCall(calls[r], "save_output")
                  /\ FirstCall(calls[r], "save_output") < g
            /\ Completed(r) /\ Parsed(r) /\ ErrorFree(parser[r]) => n = 1
            /\ Completed(r) /\ Parsed(r) /\ ~ErrorFree(parser[r]) => n = 0

\* A run has ended with the backend invoked, and another with errors.
C1_Witness ==
    \E r, q \in Req :
        /\ Completed(r) /\ Count(calls[r], "genARM") = 1
        /\ Completed(q) /\ Parsed(q) /\ ~ErrorFree(parser[q])

\* The report the claim describes: one section per category, in the order
\* lexical, syntax, semantic, each holding the category's stripped text.
ExpectedTitles == <<"Lexical Errors:", "Syntax Errors:", "Semantic Errors:">>

ExpectedBodies(p) == <<Strip(p.lex), Strip(p.syn), Strip(p.sem)>>

SameSections(secs, p, endings) ==
    /\ Len(secs) = 3
    /\ \A i \in 1 .. 3 :
          /\ secs[i].text = ExpectedTitles[i]
          /\ secs[i].body = ExpectedBodies(p)[i] \o endings[i]
          /\ ExpectedBodies(p)[i] # <<>>

\* C2: when a category is not error-free, the diagnostics are printed and
\* armv8_output.s is overwritten with the report: one section per category
\* in the order lexical, syntax, semantic, each with the category's records
\* or its sentinel, the same sections as printed; the run ends without
\* executing the program, even when run was requested.
C2_ErrorReport ==
    \A r \in Req :
        Completed(r) /\ Parsed(r) /\ ~ErrorFree(parser[r]) =>
            /\ outcome[r].branch = "failed"
            /\ outcome[r].asm.kind = "errors"
            /\ SameSections(outcome[r].asm.sections, parser[r],
                            <<<<Newline, Newline>>, <<Newline, Newline>>, <<Newline>>>>)
            /\ HasPrinted(r, "Compilation failed due to the following errors:")
            /\ SameSections(SubSeq(printed[r], Len(printed[r]) - 2, Len(printed[r])),
                            parser[r], <<<<>>, <<>>, <<>>>>)
            /\ ~HasPrinted(r, "Executing compiled program")
            /\ exec[r] = NoExec
            /\ Count(calls[r], "genARM") = 0

\* A run with run requested has ended on the failure path.
C2_Witness ==
    \E r \in Req :
        /\ Completed(r) /\ runFlag[r] /\ outcome[r].branch = "failed"
        /\ asmFile.kind = "errors"

\* C4: in every run both SymbolTableManager.init() and MemoryManager.init()
\* complete before the Parser is constructed and parse() is invoked, and
\* neither is invoked again during the run; this holds for every run of a
\* sequence of compilations.
C4_InitBeforeParse ==
    \A r \in Req :
        LET c == calls[r]
        IN  /\ Count(c, "SymbolTableManager.init") <= 1
            /\ Count(c, "MemoryManager.init") <= 1
            /\ \A i \in DOMAIN c :
                  c[i] \in {"Parser", "parse"} =>
                      /\ \E j \in 1 .. (i - 1) : c[j] = "SymbolTableManager.init"
                      /\ \E j \in 1 .. (i - 1) : c[j] = "MemoryManager.init"
            /\ Completed(r) /\ src[r] # None =>
                  /\ Count(c, "SymbolTableManager.init") = 1
                  /\ Count(c, "MemoryManager.init") = 1
                  /\ Count(c, "parse") = 1

\* The second run of a sequence has parsed, after the first has ended.
C4_Witness ==
    \E r \in Req :
        /\ r > 1 /\ Completed(r - 1) /\ Parsed(r - 1)
        /\ Completed(r) /\ Parsed(r)

\* C5: compiling the same source twice in sequence gives the same three
\* error texts, the same branch and the same content of armv8_output.s;
\* nothing the first run left behind changes the second.
C5_Idempotent ==
    \A r \in Req :
        (/\ r > 1
         /\ Completed(r - 1) /\ Completed(r)
         /\ src[r] # None /\ src[r - 1] = src[r]) =>
            /\ outcome[r].texts = outcome[r - 1].texts
            /\ outcome[r].branch = outcome[r - 1].branch
            /\ outcome[r].asm = outcome[r - 1].asm

\* The same correct source was compiled twice by one server process.
C5_Witness ==
    \E r \in Req :
        /\ r > 1 /\ Completed(r - 1) /\ Completed(r)
        /\ src[r] = "ok" /\ src[r - 1] = "ok"
        /\ entry[r] = "api" /\ entry[r - 1] = "api"
        /\ outcome[r].asm.kind = "asm"

\* C6: api_compile never propagates a failure: every request gets exactly
\* one response, {success: true, output} when no exception was raised and
\* the error payload with status 500 when one was.
C6_OneResponse ==
    \A r \in Req :
        entry[r] = "api" =>
            /\ pc[r] # "done" => nResponses[r] = 0 /\ response[r] = NoResponse
            /\ pc[r] = "done" =>
                  /\ nResponses[r] = 1
                  /\ err[r] = None =>
                        /\ response[r].success /\ response[r].status = 200
                        /\ response[r].error = None
                  /\ err[r] # None =>
                        /\ ~response[r].success /\ response[r].status = 500
                        /\ response[r].error = err[r]

\* One request was answered after os.remove failed, another after a stage
\* of compile_code failed.
C6_Witness ==
    \E r, q \in Req :
        /\ pc[r] = "done" /\ err[r] = "os.remove failed"
        /\ pc[q] = "done" /\ err[q] = "address space exhausted"

\* The interpreter was started, or should have been, and did not end well:
\* it could not be started, it ran past the timeout, or it exited with a
\* non-zero status.
ExecFailed(r) ==
    /\ exec[r].plat \in Supported
    /\ \/ exec[r].end = "cannot start"
       \/ exec[r].dur > TesterTimeout
       \/ exec[r].end = "exit 1"

\* C8: the optional execution starts only after a successful compilation
\* whose backend has run, and when it fails (a timeout, a non-zero exit
\* status, a tester that cannot be started) compile_code still returns
\* normally, the compilation reported as successful and the assembly left
\* in place.
C8_ExecFailureIsolated ==
    \A r \in Req :
        /\ exec[r] # NoExec =>
              /\ runFlag[r] /\ Parsed(r) /\ ErrorFree(parser[r])
              /\ Count(calls[r], "genARM") = 1
              /\ HasPrinted(r, "Compilation successful!")
        /\ ExecFailed(r) =>
              /\ pc[r] = "returned" /\ err[r] = None
              /\ outcome[r].branch = "success"
              /\ outcome[r].asm = Assembly(parser[r].ir)
              /\ asmFile = Assembly(parser[r].ir)

\* C9: on a platform other than Windows, Linux and Darwin a requested
\* execution aborts the run with RuntimeError "Unsupported operating
\* system!", which is not added to an error category and does not take the
\* failure path; this happens only when run was requested and the
\* compilation had no errors, and never on a supported platform.
C9_UnsupportedPlatform ==
    \A r \in Req :
        /\ err[r] = UnsupportedOS =>
              /\ runFlag[r] /\ Parsed(r) /\ ErrorFree(parser[r])
              /\ exec[r].plat \notin Supported
              /\ pc[r] = "raised"
              /\ outcome[r].branch # "failed"
              /\ outcome[r].asm.kind = "asm"
              /\ ~HasPrinted(r, "Compilation failed due to the following errors:")
              /\ parser[r] = ParseResult(src[r], parser[r].ir[2], layout)
        /\ (exec[r] # NoExec /\ exec[r].plat \notin Supported) =>
              err[r] = UnsupportedOS /\ pc[r] = "raised"

\* A run aborted on an unsupported platform, another ran the tester on a
\* supported one.
C9_Witness ==
    \E r, q \in Req :
        /\ err[r] = UnsupportedOS /\ exec[r].plat = "Java"
        /\ exec[q].plat = "Darwin" /\ pc[q] = "returned"

\* Run r has initialised the managers and compile_code has not ended.
Running(r) ==
    pc[r] \in {"mminit", "parse", "save", "gate", "writeerr", "genarm", "exec"}

\* C3: concurrent requests do not share the pipeline state: no step of
\* one request's compile_code falls between the init and the end of
\* another's, so two requests are never both between their init and their
\* end.
C3_MutualExclusion ==
    \A r, q \in Req : r # q => ~(Running(r) /\ Running(q))

\* C7: the output a request returns is exactly what its own run printed,
\* complete and in order, with nothing printed by another request.
C7_OwnOutput ==
    \A r \in Req :
        response[r].success => response[r].output = Tagged(r, printed[r])

\* C10: the temporary source file of a request is gone when its response
\* is returned, on every path.
C10_TempFileRemoved ==
    \A r \in Req : pc[r] = "done" => r \notin tmpFiles
=============================================================================
